---- MODULE Spec2Model ----
(***************************************************************************)
(* Model of desktop/src-tauri/src/utils/app_termination.rs:                *)
(* setup_termination_handler (the once-guarded registration of the         *)
(* OBBAppTerminationObserver delegate) and will_terminate (the callback    *)
(* the notification centre invokes on NSApplicationWillTerminate).         *)
(*                                                                         *)
(* Application threads call setup_termination_handler; each closure        *)
(* statement is one atomic step.  The OS posts the termination             *)
(* notification at most once and the notification centre calls the         *)
(* selector once per installed subscription.                               *)
(***************************************************************************)
EXTENDS Integers, Sequences, FiniteSets

\* ---------------------------------------------------------------- bounds
NumCalls == 2       \* threads that call setup_termination_handler
NumHandles == 2     \* distinct AppHandle values a caller may pass
NumAddrs == 2       \* heap cells Box::new may return

Threads == 1..NumCalls
Handles == 1..NumHandles
Addrs == 1..NumAddrs

\* the null pointer / an ivar of a freshly created object
NullPtr == 0
\* content of a heap cell that holds no AppHandle
NoHandle == 0
\* Option::None of the OBSERVER static
None == 0
\* no thread
NoThread == 0

\* The native classes the closure looks up with Class::get(..).unwrap(), and
\* the delegate class it declares with ClassDecl::new(..).unwrap().
NativeClasses == {"NSObject", "NSNotificationCenter", "NSApplication", "NSString"}
DelegateClass == "OBBAppTerminationObserver"
Prerequisites == NativeClasses \cup {DelegateClass}

VARIABLES
    INIT,           \* state of the Once: Incomplete, Running, Poisoned, Complete
    OBSERVER,       \* the static slot: None or the observer object
    pc,             \* pc[t]: position of thread t in setup_termination_handler
    arg,            \* arg[t]: the app_handle thread t passed
    loc,            \* loc[t]: the closure's locals app_ptr and observer
    runner,         \* the thread whose closure call_once runs (history)
    heap,           \* heap[a]: the AppHandle boxed at address a
    classDecl,      \* "none", "declared" (ClassDecl built), "registered"
    observers,      \* observers[o]: the appHandlePtr ivar of created object o
    subs,           \* observers subscribed with addObserver, in order
    avail,          \* the prerequisites this platform provides
    fired,          \* the OS has posted NSApplicationWillTerminateNotification
    pending,        \* subscriptions the notification centre still has to call
    cbPc,           \* position of the OS thread in will_terminate
    cbThis,         \* `this` of the running callback
    cbHandle,       \* the AppHandle the callback read through the ivar
    rt,             \* outcome of Runtime::new in this callback
    cleanup,        \* state of the cleanup_all_processes future
    cleanupCalls,   \* handles cleanup_all_processes has been invoked with
    proc            \* "alive", or how the process ended

vars == <<INIT, OBSERVER, pc, arg, loc, runner, heap, classDecl, observers,
          subs, avail, fired, pending, cbPc, cbThis, cbHandle, rt, cleanup,
          cleanupCalls, proc>>

setupVars == <<INIT, OBSERVER, pc, arg, loc, runner, heap, classDecl,
               observers, subs>>
cbVars == <<fired, pending, cbPc, cbThis, cbHandle, rt, cleanup, cleanupCalls>>
nativeVars == <<OBSERVER, heap, classDecl, observers, subs>>

\* ------------------------------------------------------------- helpers

\* The statements of the closure, in program order.
SetupOrderSubscribeEarly ==
    << "box_into_raw", "get_nsobject", "class_decl_new", "add_ivar_method",
       "register", "new", "get_notification_center", "get_nsapplication",
       "make_notification_name", "add_observer", "set_ivar", "store_observer",
       "closure_end" >>
SetupOrderBoxLate ==
    << "get_nsobject", "class_decl_new", "add_ivar_method", "register",
       "new", "box_into_raw", "set_ivar", "store_observer",
       "get_notification_center", "get_nsapplication",
       "make_notification_name", "add_observer", "closure_end" >>
SetupOrder ==
    << "box_into_raw", "get_nsobject", "class_decl_new", "add_ivar_method",
       "register", "new", "set_ivar", "store_observer",
       "get_notification_center", "get_nsapplication",
       "make_notification_name", "add_observer", "closure_end" >>

PosOf(s) == CHOOSE i \in 1..Len(SetupOrder) : SetupOrder[i] = s
StepAfter(s) == SetupOrder[PosOf(s) + 1]
InClosure(s) == \E i \in 1..Len(SetupOrder) : SetupOrder[i] = s

\* Class::get(name) / ClassDecl::new(name, ..) returns Some.
ClassGetAlways(name) == TRUE
ClassGet(name) == name \in avail

\* The heap cell Box::into_raw(Box::new(app_handle)) leaves behind.
BoxDropped(h) == NoHandle
BoxIntoRaw(h) == h

\* addObserver:selector:name:object: adds one entry to the centre's table.
SubscribeTwice(s, o) == Append(Append(s, o), o)
Subscribe(s, o) == Append(s, o)

\* call_once returns to a caller that did not run the closure.
OnceReturnsEarly(st) == st \in {"Running", "Complete"}
OnceReturns(st) == st = "Complete"

\* The state call_once's guard leaves the Once in when the closure panics.
OnceAfterPanicRetries == "Incomplete"
OnceAfterPanic == "Poisoned"

\* rt.block_on(fut) returns to will_terminate.
BlockOnHangs(c) == FALSE
BlockOnDetached(c) == c \in {"running", "ok", "err"}
BlockOnReturns(c) == c \in {"ok", "err"}

\* `if let Ok(rt) = Runtime::new() { rt.block_on(..) }`: where will_terminate
\* continues after Runtime::new.
AfterRuntimeNewSkips(ok) == "return"
AfterRuntimeNewRuns(ok) == "block_on"
AfterRuntimeNew(ok) == IF ok THEN "block_on" ELSE "return"

\* The heap once will_terminate is done with the handle behind p: line 39
\* only borrows it (`&*`), and line 44 passes a clone to the cleanup.
TakeHandle(h, p) == [a \in Addrs |-> IF a = p THEN NoHandle ELSE h[a]]
BorrowHandle(h, p) == h

\* &*(app_ptr as *const AppHandle): what a read through p can yield.
Deref(p) ==
    IF p \in Addrs /\ heap[p] # NoHandle
    THEN {heap[p]}
    ELSE Handles \cup {NoHandle}

\* ----------------------------------------------------------------- Init
Init ==
    /\ INIT = "Incomplete"
    /\ OBSERVER = None
    /\ pc = [t \in Threads |-> "idle"]
    /\ arg = [t \in Threads |-> NoHandle]
    /\ loc = [t \in Threads |-> [app_ptr |-> NullPtr, observer |-> NullPtr]]
    /\ runner = NoThread
    /\ heap = [a \in Addrs |-> NoHandle]
    /\ classDecl = "none"
    /\ observers = << >>
    /\ subs = << >>
    /\ avail \in SUBSET Prerequisites
    /\ fired = FALSE
    /\ pending = << >>
    /\ cbPc = "idle"
    /\ cbThis = NullPtr
    /\ cbHandle = NoHandle
    /\ rt = "none"
    /\ cleanup = "none"
    /\ cleanupCalls = << >>
    /\ proc = "alive"

\* A panic on thread t: the thread unwinds, or the process aborts
\* (panic = "abort" profile, or a panic the runtime cannot unwind).
PanicOn(t) ==
    /\ pc' = [pc EXCEPT ![t] = "panicked"]
    /\ proc' \in {"alive", "aborted"}

\* ------------------------------------------ setup_termination_handler
\* line 13: a thread calls setup_termination_handler(app_handle)
Call(t, h) ==
    /\ proc = "alive"
    /\ pc[t] = "idle"
    /\ pc' = [pc EXCEPT ![t] = "call_once"]
    /\ arg' = [arg EXCEPT ![t] = h]
    /\ UNCHANGED <<INIT, OBSERVER, loc, runner, heap, classDecl, observers,
                   subs, avail, proc>>
    /\ UNCHANGED cbVars

\* line 14: call_once finds the Once Incomplete and starts the closure
OnceBegin(t) ==
    /\ proc = "alive"
    /\ pc[t] = "call_once"
    /\ INIT = "Incomplete"
    /\ INIT' = "Running"
    /\ runner' = IF runner = NoThread THEN t ELSE runner
    /\ pc' = [pc EXCEPT ![t] = SetupOrder[1]]
    /\ UNCHANGED <<OBSERVER, arg, loc, heap, classDecl, observers, subs,
                   avail, proc>>
    /\ UNCHANGED cbVars

\* line 14: call_once on a completed Once returns; on a running one it waits
OnceSkip(t) ==
    /\ proc = "alive"
    /\ pc[t] = "call_once"
    /\ OnceReturns(INIT)
    /\ pc' = [pc EXCEPT ![t] = "returned"]
    /\ UNCHANGED <<INIT, OBSERVER, arg, loc, runner, heap, classDecl,
                   observers, subs, avail, proc>>
    /\ UNCHANGED cbVars

\* line 14: call_once on a poisoned Once panics
OncePoisoned(t) ==
    /\ proc = "alive"
    /\ pc[t] = "call_once"
    /\ INIT = "Poisoned"
    /\ PanicOn(t)
    /\ UNCHANGED <<INIT, OBSERVER, arg, loc, runner, heap, classDecl,
                   observers, subs, avail>>
    /\ UNCHANGED cbVars

\* line 22: let app_ptr = Box::into_raw(Box::new(app_handle)) as *mut c_void
BoxAppHandle(t) ==
    /\ proc = "alive"
    /\ pc[t] = "box_into_raw"
    /\ \E a \in Addrs :
        /\ heap[a] = NoHandle
        /\ heap' = [heap EXCEPT ![a] = BoxIntoRaw(arg[t])]
        /\ loc' = [loc EXCEPT ![t].app_ptr = a]
    /\ pc' = [pc EXCEPT ![t] = StepAfter("box_into_raw")]
    /\ UNCHANGED <<INIT, OBSERVER, arg, runner, classDecl, observers, subs,
                   avail, proc>>
    /\ UNCHANGED cbVars

\* The class a closure statement needs the platform to provide.
Needs(s) ==
    CASE s = "get_nsobject" -> "NSObject"
      [] s = "class_decl_new" -> DelegateClass
      [] s = "get_notification_center" -> "NSNotificationCenter"
      [] s = "get_nsapplication" -> "NSApplication"
      [] s = "make_notification_name" -> "NSString"
UnwrapSteps == {"get_nsobject", "class_decl_new", "get_notification_center",
                "get_nsapplication", "make_notification_name"}

\* The Option a statement unwraps is Some.  ClassDecl::new also returns
\* None when a class of that name has already been allocated.
UnwrapOk(s) ==
    /\ ClassGet(Needs(s))
    /\ s = "class_decl_new" => classDecl = "none"

\* lines 25, 27, 74, 81, 88: .unwrap() on None panics inside the closure;
\* the unwinding drops call_once's guard, which poisons the Once.
UnwrapPanics(t) ==
    /\ proc = "alive"
    /\ pc[t] \in UnwrapSteps
    /\ ~UnwrapOk(pc[t])
    /\ INIT' = OnceAfterPanic
    /\ PanicOn(t)
    /\ UNCHANGED <<OBSERVER, arg, loc, runner, heap, classDecl, observers,
                   subs, avail>>
    /\ UNCHANGED cbVars

\* line 25: let superclass = Class::get("NSObject").unwrap()
GetNSObject(t) ==
    /\ proc = "alive"
    /\ pc[t] = "get_nsobject"
    /\ UnwrapOk("get_nsobject")
    /\ pc' = [pc EXCEPT ![t] = StepAfter("get_nsobject")]
    /\ UNCHANGED <<INIT, OBSERVER, arg, loc, runner, heap, classDecl,
                   observers, subs, avail, proc>>
    /\ UNCHANGED cbVars

\* lines 26-27: ClassDecl::new("OBBAppTerminationObserver", superclass).unwrap()
ClassDeclNew(t) ==
    /\ proc = "alive"
    /\ pc[t] = "class_decl_new"
    /\ UnwrapOk("class_decl_new")
    /\ classDecl' = "declared"
    /\ pc' = [pc EXCEPT ![t] = StepAfter("class_decl_new")]
    /\ UNCHANGED <<INIT, OBSERVER, arg, loc, runner, heap, observers, subs,
                   avail, proc>>
    /\ UNCHANGED cbVars

\* lines 30, 54-58: decl.add_ivar("appHandlePtr"); decl.add_method(..)
AddIvarMethod(t) ==
    /\ proc = "alive"
    /\ pc[t] = "add_ivar_method"
    /\ pc' = [pc EXCEPT ![t] = StepAfter("add_ivar_method")]
    /\ UNCHANGED <<INIT, OBSERVER, arg, loc, runner, heap, classDecl,
                   observers, subs, avail, proc>>
    /\ UNCHANGED cbVars

\* line 61: let termination_observer_class = decl.register()
RegisterClass(t) ==
    /\ proc = "alive"
    /\ pc[t] = "register"
    /\ classDecl' = "registered"
    /\ pc' = [pc EXCEPT ![t] = StepAfter("register")]
    /\ UNCHANGED <<INIT, OBSERVER, arg, loc, runner, heap, observers, subs,
                   avail, proc>>
    /\ UNCHANGED cbVars

\* line 65: let observer = msg_send![termination_observer_class, new];
\* the new object's ivars are zeroed
NewObserver(t) ==
    /\ proc = "alive"
    /\ pc[t] = "new"
    /\ observers' = Append(observers, NullPtr)
    /\ loc' = [loc EXCEPT ![t].observer = Len(observers) + 1]
    /\ pc' = [pc EXCEPT ![t] = StepAfter("new")]
    /\ UNCHANGED <<INIT, OBSERVER, arg, runner, heap, classDecl, subs, avail,
                   proc>>
    /\ UNCHANGED cbVars

\* line 68: (*observer).set_ivar("appHandlePtr", app_ptr)
SetIvar(t) ==
    /\ proc = "alive"
    /\ pc[t] = "set_ivar"
    /\ observers' = [observers EXCEPT ![loc[t].observer] = loc[t].app_ptr]
    /\ pc' = [pc EXCEPT ![t] = StepAfter("set_ivar")]
    /\ UNCHANGED <<INIT, OBSERVER, arg, loc, runner, heap, classDecl, subs,
                   avail, proc>>
    /\ UNCHANGED cbVars

\* line 71: OBSERVER = Some(observer as *mut c_void)
StoreObserver(t) ==
    /\ proc = "alive"
    /\ pc[t] = "store_observer"
    /\ OBSERVER' = loc[t].observer
    /\ pc' = [pc EXCEPT ![t] = StepAfter("store_observer")]
    /\ UNCHANGED <<INIT, arg, loc, runner, heap, classDecl, observers, subs,
                   avail, proc>>
    /\ UNCHANGED cbVars

\* lines 74-77: Class::get("NSNotificationCenter").unwrap(); defaultCenter
GetNotificationCenter(t) ==
    /\ proc = "alive"
    /\ pc[t] = "get_notification_center"
    /\ UnwrapOk("get_notification_center")
    /\ pc' = [pc EXCEPT ![t] = StepAfter("get_notification_center")]
    /\ UNCHANGED <<INIT, OBSERVER, arg, loc, runner, heap, classDecl,
                   observers, subs, avail, proc>>
    /\ UNCHANGED cbVars

\* lines 81-83: Class::get("NSApplication").unwrap(); sharedApplication
GetNSApplication(t) ==
    /\ proc = "alive"
    /\ pc[t] = "get_nsapplication"
    /\ UnwrapOk("get_nsapplication")
    /\ pc' = [pc EXCEPT ![t] = StepAfter("get_nsapplication")]
    /\ UNCHANGED <<INIT, OBSERVER, arg, loc, runner, heap, classDecl,
                   observers, subs, avail, proc>>
    /\ UNCHANGED cbVars

\* lines 87-92: Class::get("NSString").unwrap(); stringWithUTF8String.
\* CString::new of the literal cannot fail: it has no interior NUL.
MakeNotificationName(t) ==
    /\ proc = "alive"
    /\ pc[t] = "make_notification_name"
    /\ UnwrapOk("make_notification_name")
    /\ pc' = [pc EXCEPT ![t] = StepAfter("make_notification_name")]
    /\ UNCHANGED <<INIT, OBSERVER, arg, loc, runner, heap, classDecl,
                   observers, subs, avail, proc>>
    /\ UNCHANGED cbVars

\* lines 95-101: [notification_center addObserver:observer selector:.. name:.. object:app]
AddObserver(t) ==
    /\ proc = "alive"
    /\ pc[t] = "add_observer"
    /\ subs' = Subscribe(subs, loc[t].observer)
    /\ pc' = [pc EXCEPT ![t] = StepAfter("add_observer")]
    /\ UNCHANGED <<INIT, OBSERVER, arg, loc, runner, heap, classDecl,
                   observers, avail, proc>>
    /\ UNCHANGED cbVars

\* lines 102-105: the closure returns, call_once marks the Once Complete
\* and setup_termination_handler returns
OnceComplete(t) ==
    /\ proc = "alive"
    /\ pc[t] = "closure_end"
    /\ INIT' = "Complete"
    /\ pc' = [pc EXCEPT ![t] = "returned"]
    /\ UNCHANGED <<OBSERVER, arg, loc, runner, heap, classDecl, observers,
                   subs, avail, proc>>
    /\ UNCHANGED cbVars

\* ------------------------------------------------ the OS and will_terminate
\* The OS posts NSApplicationWillTerminateNotification, once; the centre
\* will call every subscription installed at that moment.
PostTermination ==
    /\ proc = "alive"
    /\ ~fired
    /\ fired' = TRUE
    /\ pending' = subs
    /\ UNCHANGED <<cbPc, cbThis, cbHandle, rt, cleanup, cleanupCalls, avail,
                   proc>>
    /\ UNCHANGED setupVars

\* lines 33-34: the centre sends applicationWillTerminate: to the next observer
EnterWillTerminate ==
    /\ proc = "alive"
    /\ pending # << >>
    /\ cbPc \in {"idle", "returned"}
    /\ cbThis' = Head(pending)
    /\ pending' = Tail(pending)
    /\ cbPc' = "get_ivar"
    /\ cbHandle' = NoHandle
    /\ rt' = "none"
    /\ cleanup' = "none"
    /\ UNCHANGED <<fired, cleanupCalls, avail, proc>>
    /\ UNCHANGED setupVars

\* lines 38-39: app_ptr = *this.get_ivar("appHandlePtr");
\* app_handle = &*(app_ptr as *const AppHandle)
GetIvar ==
    /\ proc = "alive"
    /\ cbPc = "get_ivar"
    /\ \E h \in Deref(observers[cbThis]) : cbHandle' = h
    /\ cbPc' = "runtime_new"
    /\ UNCHANGED <<fired, pending, cbThis, rt, cleanup, cleanupCalls, avail,
                   proc>>
    /\ UNCHANGED setupVars

\* line 42: if let Ok(rt) = Runtime::new()
RuntimeNew ==
    /\ proc = "alive"
    /\ cbPc = "runtime_new"
    /\ \E ok \in BOOLEAN :
        /\ rt' = IF ok THEN "ok" ELSE "failed"
        /\ cbPc' = AfterRuntimeNew(ok)
    /\ UNCHANGED <<fired, pending, cbThis, cbHandle, cleanup, cleanupCalls,
                   avail, proc>>
    /\ UNCHANGED setupVars

\* lines 43-44: rt.block_on starts polling
\* crate::cleanup_all_processes(app_handle.clone())
StartCleanup ==
    /\ proc = "alive"
    /\ cbPc = "block_on"
    /\ cleanupCalls' = Append(cleanupCalls, cbHandle)
    /\ cleanup' = "running"
    /\ cbPc' = "blocked"
    /\ UNCHANGED <<fired, pending, cbThis, cbHandle, rt, avail, proc>>
    /\ UNCHANGED setupVars

\* the collaborator's future resolves, its work done or failed with an
\* error; line 44 discards the value (`.await;`)
CleanupSettles ==
    /\ proc = "alive"
    /\ cleanup = "running"
    /\ cleanup' \in {"ok", "err"}
    /\ UNCHANGED <<fired, pending, cbPc, cbThis, cbHandle, rt, cleanupCalls,
                   avail, proc>>
    /\ UNCHANGED setupVars

\* the collaborator panics while it is polled
CleanupPanics ==
    /\ proc = "alive"
    /\ cleanup = "running"
    /\ cleanup' = "panicked"
    /\ UNCHANGED <<fired, pending, cbPc, cbThis, cbHandle, rt, cleanupCalls,
                   avail, proc>>
    /\ UNCHANGED setupVars

\* lines 43-46: block_on returns once the future has resolved
BlockOnDone ==
    /\ proc = "alive"
    /\ cbPc = "blocked"
    /\ BlockOnReturns(cleanup)
    /\ cbPc' = "return"
    /\ UNCHANGED <<fired, pending, cbThis, cbHandle, rt, cleanup,
                   cleanupCalls, avail, proc>>
    /\ UNCHANGED setupVars

\* lines 33, 43-45: block_on resumes the panic of the future; nothing in
\* will_terminate catches it, so it leaves the extern "C" fn: the process
\* aborts (Rust >= 1.81), or the unwinding enters the foreign frames
\* (undefined behaviour on older toolchains).  Neither returns to the OS.
PanicEscapes ==
    /\ proc = "alive"
    /\ cbPc = "blocked"
    /\ cleanup = "panicked"
    /\ cbPc' = "panicked"
    /\ proc' \in {"aborted", "unwound"}
    /\ UNCHANGED <<fired, pending, cbThis, cbHandle, rt, cleanup,
                   cleanupCalls, avail>>
    /\ UNCHANGED setupVars

\* lines 46-50: will_terminate returns to the notification centre; no exit()
ReturnToOS ==
    /\ proc = "alive"
    /\ cbPc = "return"
    /\ cbPc' = "returned"
    /\ heap' = BorrowHandle(heap, observers[cbThis])
    /\ UNCHANGED <<fired, pending, cbThis, cbHandle, rt, cleanup,
                   cleanupCalls, avail, proc>>
    /\ UNCHANGED <<INIT, OBSERVER, pc, arg, loc, runner, classDecl,
                   observers, subs>>

\* The OS ends the process: at its shutdown deadline, or after the
\* notification has been delivered.
OSKill ==
    /\ proc = "alive"
    /\ fired
    /\ proc' = "killed_by_os"
    /\ UNCHANGED <<fired, pending, cbPc, cbThis, cbHandle, rt, cleanup,
                   cleanupCalls, avail>>
    /\ UNCHANGED setupVars

\* ----------------------------------------------------------------- Spec
Next ==
    \/ \E t \in Threads, h \in Handles : Call(t, h)
    \/ \E t \in Threads : OnceBegin(t)
    \/ \E t \in Threads : OnceSkip(t)
    \/ \E t \in Threads : OncePoisoned(t)
    \/ \E t \in Threads : BoxAppHandle(t)
    \/ \E t \in Threads : UnwrapPanics(t)
    \/ \E t \in Threads : GetNSObject(t)
    \/ \E t \in Threads : ClassDeclNew(t)
    \/ \E t \in Threads : AddIvarMethod(t)
    \/ \E t \in Threads : RegisterClass(t)
    \/ \E t \in Threads : NewObserver(t)
    \/ \E t \in Threads : SetIvar(t)
    \/ \E t \in Threads : StoreObserver(t)
    \/ \E t \in Threads : GetNotificationCenter(t)
    \/ \E t \in Threads : GetNSApplication(t)
    \/ \E t \in Threads : MakeNotificationName(t)
    \/ \E t \in Threads : AddObserver(t)
    \/ \E t \in Threads : OnceComplete(t)
    \/ PostTermination
    \/ EnterWillTerminate
    \/ GetIvar
    \/ RuntimeNew
    \/ StartCleanup
    \/ CleanupSettles
    \/ CleanupPanics
    \/ BlockOnDone
    \/ PanicEscapes
    \/ ReturnToOS
    \/ OSKill

Spec == Init /\ [][Next]_vars

\* The OS thread that runs will_terminate keeps running: each statement of
\* the callback is eventually executed.  Nothing makes the collaborator's
\* future settle, and nothing makes the OS post the notification or wait.
CallbackStep ==
    \/ EnterWillTerminate
    \/ GetIvar
    \/ RuntimeNew
    \/ StartCleanup
    \/ BlockOnDone
    \/ PanicEscapes
    \/ ReturnToOS
LiveSpec == Spec /\ WF_vars(CallbackStep)

TypeOK ==
    /\ INIT \in {"Incomplete", "Running", "Poisoned", "Complete"}
    /\ OBSERVER \in 0..Len(observers)
    /\ \A t \in Threads : pc[t] \in {"idle", "call_once", "returned", "panicked"}
                              \/ InClosure(pc[t])
    /\ arg \in [Threads -> Handles \cup {NoHandle}]
    /\ runner \in Threads \cup {NoThread}
    /\ heap \in [Addrs -> Handles \cup {NoHandle}]
    /\ classDecl \in {"none", "declared", "registered"}
    /\ avail \subseteq Prerequisites
    /\ fired \in BOOLEAN
    /\ cbPc \in {"idle", "get_ivar", "runtime_new", "block_on", "blocked",
                 "return", "returned", "panicked"}
    /\ rt \in {"none", "ok", "failed"}
    /\ cleanup \in {"none", "running", "ok", "err", "panicked"}
    /\ proc \in {"alive", "killed_by_os", "aborted", "unwound"}

\* ---------------------------------------------------------------- claims
Returned(t) == pc[t] = "returned"

\* C1: however many calls are made and however they interleave, at most
\* one Observer is created and at most one subscription installed, and
\* once any call has returned both counts are exactly 1.
C1_ExactlyOneObserver ==
    /\ Len(observers) <= 1
    /\ Len(subs) <= 1
    /\ (\E t \in Threads : Returned(t)) => Len(observers) = 1 /\ Len(subs) = 1
\* every call has returned
C1_Witness ==
    /\ \A t \in Threads : Returned(t)
    /\ Len(observers) = 1
    /\ Len(subs) = 1

\* C2: a step of any call other than the one running the setup leaves the
\* Observer slot, the token, the delegate class and the subscriptions
\* unchanged, and such a call leaves call_once only by returning normally.
C2_LaterCallsNoOp ==
    [][\A t \in Threads :
          (t # runner' /\ pc'[t] # pc[t]) =>
              /\ UNCHANGED nativeVars
              /\ pc[t] = "call_once" => pc'[t] = "returned"]_vars

\* C3: when any call has returned, the Observer is fully constructed: the
\* Once is Complete, the slot holds the Observer, its ivar holds the token
\* of a boxed handle, and it is subscribed.
C3_NoPartialObserver ==
    (\E t \in Threads : Returned(t)) =>
        /\ INIT = "Complete"
        /\ OBSERVER # None
        /\ observers[OBSERVER] \in Addrs
        /\ heap[observers[OBSERVER]] # NoHandle
        /\ subs = << OBSERVER >>
\* a call that did not run the setup has returned
C3_Witness ==
    \E t \in Threads : t # runner /\ Returned(t) /\ subs = << OBSERVER >>

\* C4 as stated: when the callback has returned, cleanup_all_processes has
\* been invoked exactly once.
C4_CleanupExactlyOnce ==
    cbPc = "returned" => Len(cleanupCalls) = 1
\* C4 amended: cleanup_all_processes is invoked at most once; when the
\* callback has returned it was invoked exactly once if Runtime::new
\* succeeded and not at all if it failed.
C4_CleanupOnceIfRuntime ==
    /\ Len(cleanupCalls) <= 1
    /\ cbPc = "returned" =>
          Len(cleanupCalls) = (IF rt = "ok" THEN 1 ELSE 0)
\* the callback returned after one invocation of the cleanup
C4_Witness ==
    cbPc = "returned" /\ rt = "ok" /\ Len(cleanupCalls) = 1 /\ pending = << >>

\* C5: will_terminate is never at or past its return while the cleanup
\* invocation it started is unsettled.
C5_NoReturnBeforeSettled ==
    cbPc \in {"return", "returned"} =>
        /\ cleanup # "running"
        /\ rt = "ok" => cleanup \in {"ok", "err"}
\* the callback returned after the cleanup it started settled
C5_Witness ==
    cbPc = "returned" /\ cleanup \in {"ok", "err"}

\* C6: the handle the callback reads and passes to cleanup_all_processes is
\* the one given to the call that ran the setup; no other call's handle
\* is ever boxed.
C6_HandleRoundTrip ==
    /\ \A a \in Addrs :
          heap[a] # NoHandle => runner # NoThread /\ heap[a] = arg[runner]
    /\ cbPc \in {"runtime_new", "block_on", "blocked", "return", "returned"} =>
          cbHandle = arg[runner]
    /\ \A i \in 1..Len(cleanupCalls) : cleanupCalls[i] = arg[runner]
\* cleanup ran with the setup call's handle while another call carried a
\* different one
C6_Witness ==
    /\ cleanupCalls # << >>
    /\ \E t \in Threads :
          t # runner /\ arg[t] # NoHandle /\ arg[t] # arg[runner]

\* C7: a failure of the cleanup routine never leaves will_terminate: the
\* callback does not end by a panic and the process is not ended by it.
C7_CleanupFailureSwallowed ==
    cleanup \in {"err", "panicked"} =>
        cbPc # "panicked" /\ proc \notin {"aborted", "unwound"}

\* C8: whenever the callback is running, and whenever a subscription is
\* installed, the delegate holds the token of a boxed handle and is the
\* one stored in the Observer slot.
C8_SubscribedAfterStored ==
    /\ \A i \in 1..Len(subs) :
          /\ observers[subs[i]] \in Addrs
          /\ heap[observers[subs[i]]] # NoHandle
          /\ OBSERVER = subs[i]
    /\ cbPc # "idle" =>
          /\ observers[cbThis] \in Addrs
          /\ heap[observers[cbThis]] # NoHandle
          /\ OBSERVER = cbThis
\* the callback runs while the registering call has not yet returned
C8_Witness ==
    /\ cbPc = "get_ivar"
    /\ \E t \in Threads : pc[t] = "closure_end"

\* C9: no call gets past a lookup or declaration of a class the platform
\* lacks; if any prerequisite is missing no call returns and no
\* subscription is installed.
C9_MissingClassFatal ==
    /\ \A t \in Threads : \A s \in UnwrapSteps :
          ((InClosure(pc[t]) /\ PosOf(s) < PosOf(pc[t])) \/ Returned(t))
              => Needs(s) \in avail
    /\ avail # Prerequisites =>
          /\ subs = << >>
          /\ \A t \in Threads : ~Returned(t)
\* the registering call panicked on a missing class after it had already
\* stored the Observer
C9_Witness ==
    /\ avail # Prerequisites
    /\ runner # NoThread
    /\ pc[runner] = "panicked"
    /\ OBSERVER # None
    /\ INIT = "Poisoned"

\* C10: will_terminate only moves forward to its return, and from the
\* moment it runs the process is ended by nothing but the OS.
C10_OnlyOSEndsProcess ==
    [][/\ cbPc' # cbPc =>
            << cbPc, cbPc' >> \in
                { << "idle", "get_ivar" >>, << "get_ivar", "runtime_new" >>,
                  << "runtime_new", "block_on" >>, << "runtime_new", "return" >>,
                  << "block_on", "blocked" >>, << "blocked", "return" >>,
                  << "return", "returned" >> }
       /\ (cbPc # "idle" /\ proc = "alive" /\ proc' # "alive") =>
            proc' = "killed_by_os"]_vars

\* C11: the once-flag only moves forward (Incomplete -> Running ->
\* Complete or Poisoned) and is never reset, and the OBSERVER slot, once
\* Some, never changes; each is set at most once by any sequence of calls
\* and callbacks.
C11_WriteOnce ==
    [][/\ INIT' # INIT =>
            << INIT, INIT' >> \in { << "Incomplete", "Running" >>,
                                    << "Running", "Complete" >>,
                                    << "Running", "Poisoned" >> }
       /\ OBSERVER' # OBSERVER => OBSERVER = None /\ INIT = "Running"
       /\ INIT = "Complete" => OBSERVER' = OBSERVER /\ OBSERVER # None]_vars
\* the flag and the slot are still set after a later call and the callback
C11_Witness ==
    /\ INIT = "Complete"
    /\ OBSERVER # None
    /\ cbPc = "returned"
    /\ \A t \in Threads : Returned(t)

\* C12: only one call ever runs the setup body; after a setup that failed
\* part-way no other call enters the body, boxes a handle or subscribes.
C12_NoRetry ==
    /\ \A t \in Threads : InClosure(pc[t]) => t = runner
    /\ Cardinality({a \in Addrs : heap[a] # NoHandle}) <= 1
    /\ INIT = "Poisoned" =>
          /\ subs = << >>
          /\ \A t \in Threads : t # runner => pc[t] \in {"idle", "call_once", "panicked"}
\* a later call was made after the setup had failed, and did not re-run it
C12_Witness ==
    /\ INIT = "Poisoned"
    /\ \E t \in Threads : t # runner /\ pc[t] = "panicked"
    /\ Cardinality({a \in Addrs : heap[a] # NoHandle}) = 1

\* C13: once the execution context exists and the cleanup has settled, the
\* callback returns to the OS unless the process is ended first; and the
\* callback leaves block_on only when the cleanup has settled or panicked,
\* so it never returns while the cleanup stays unsettled.
C13_BlockingBridgeLive ==
    /\ (rt = "ok" /\ cleanup \in {"ok", "err"})
          ~> (cbPc = "returned" \/ proc # "alive")
    /\ (cbPc = "runtime_new" /\ rt = "ok")
          ~> (cleanup # "none" \/ proc # "alive")
    /\ [][(cbPc = "blocked" /\ cbPc' # "blocked") =>
              cleanup \in {"ok", "err", "panicked"}]_vars
\* the callback returned, in a live process, after the cleanup settled
C13_Witness ==
    /\ proc = "alive"
    /\ rt = "ok"
    /\ cbPc = "returned"
    /\ cleanup \in {"ok", "err"}

\* C14: at most one heap cell is ever allocated, and from the moment the
\* token exists (the setup call holds app_ptr) the cell holds the handle
\* given to that call, in every later state, whatever the callback does.
C14_TokenNeverFreed ==
    /\ Cardinality({a \in Addrs : heap[a] # NoHandle}) <= 1
    /\ \A t \in Threads :
          loc[t].app_ptr # NullPtr =>
              /\ t = runner
              /\ heap[loc[t].app_ptr] = arg[t]
              /\ \A a \in Addrs : a # loc[t].app_ptr => heap[a] = NoHandle
\* the token still holds the handle after the callback has returned
C14_Witness ==
    /\ cbPc = "returned"
    /\ rt = "ok"
    /\ runner # NoThread
    /\ loc[runner].app_ptr # NullPtr
    /\ heap[loc[runner].app_ptr] = arg[runner]

\* No call to setup_termination_handler is in progress.
NoCallInProgress == \A t \in Threads : pc[t] \in {"idle", "returned", "panicked"}
TokenAllocated == \E a \in Addrs : heap[a] # NoHandle

\* C15 as stated: when no call is in progress, the slot is set and a token
\* allocated exactly if the subscription is installed, and a failed
\* registration leaves neither an Observer stored nor a token allocated.
C15_AllOrNothing ==
    NoCallInProgress =>
        /\ (OBSERVER # None /\ TokenAllocated) <=> subs # << >>
        /\ INIT = "Poisoned" => OBSERVER = None /\ ~TokenAllocated
\* C15 amended: when no call is in progress, an installed subscription
\* implies the slot is set and a token allocated, but not conversely: a
\* registration that failed part-way installs no subscription, always
\* leaves the token allocated, and leaves the Observer stored exactly when
\* the failure came after line 71 (NSObject and the delegate class were
\* available).
C15_SubscribedImpliesStored ==
    NoCallInProgress =>
        /\ subs # << >> => OBSERVER # None /\ TokenAllocated /\ INIT = "Complete"
        /\ INIT = "Poisoned" =>
              /\ subs = << >>
              /\ TokenAllocated
              /\ OBSERVER # None <=> {"NSObject", DelegateClass} \subseteq avail
\* a registration failed after it had boxed the handle and stored the
\* Observer, and no call is in progress
C15_Witness ==
    /\ NoCallInProgress
    /\ INIT = "Poisoned"
    /\ OBSERVER # None
    /\ TokenAllocated
    /\ subs = << >>

\* C16: when Runtime::new fails the callback invokes no cleanup and goes
\* straight to its return; it neither panics nor ends the process.
C16_RuntimeFailureSkipsCleanup ==
    rt = "failed" =>
        /\ cleanup = "none"
        /\ cleanupCalls = << >>
        /\ cbPc \in {"return", "returned"}
        /\ proc \in {"alive", "killed_by_os"}
\* the callback returned to the OS after Runtime::new had failed
C16_Witness ==
    /\ rt = "failed"
    /\ cbPc = "returned"
    /\ proc = "alive"
    /\ cleanupCalls = << >>
====
